---------------------------- MODULE Spec2Model ----------------------------
(***************************************************************************)
(* Model of atena2vcard.py: CSV rows with Japanese column names are turned *)
(* into vCard 3.0 records.                                                 *)
(*                                                                         *)
(* Text.  A Python str is a sequence of characters; a character is a TLA+  *)
(* string.  ASCII characters stand for themselves ("a", ";", "\n", "\\").  *)
(* A non-ASCII character is written as one romanised token:                *)
(*   "To" U+90FD  "Do" U+9053  "Fu" U+5E9C  "Ken" U+770C  (to/do/fu/ken)   *)
(*   "Ku" U+533A (ward)        "Ji","Taku" U+81EA U+5B85 (jitaku, home)    *)
(*   "Kai","Sha" U+4F1A U+793E (kaisha, company)                           *)
(*   "Ni","Hon" U+65E5 U+672C (Japan)   "Me","Mo" U+30E1 U+30E2 (memo)     *)
(*   "FW7","FW8","FW0" U+FF17 U+FF18 U+FF10 (full-width digits)            *)
(*   "FEFF" U+FEFF (byte-order mark)                                       *)
(* A literal run of a format string (for instance "BEGIN:VCARD" or         *)
(* ";TYPE=") is kept as one token; values taken from a row are always      *)
(* sequences of single characters.                                         *)
(*                                                                         *)
(* Column names.  The dictionary keys of a row are written in romaji:      *)
(*   sei, mei (family, given name), nickname, sei_kana, mei_kana,          *)
(*   kaisha_mei, kaisha_mei_kana, busho_mei1, busho_mei2, yakushoku_mei,   *)
(*   kaisha_denwa, jitaku_denwa, keitai_bangou (phones),                   *)
(*   kaisha_email, jitaku_email, sonota_email,                             *)
(*   atesaki (address-type designator), kaisha_yubin, jitaku_yubin (postal *)
(*   codes), kaisha_jusho1..3, jitaku_jusho1..3 (address lines),           *)
(*   bikou1..3 (notes), memo1..5.                                          *)
(* The keys the code builds from addr_type, "HOME" or "WORK" followed by   *)
(* the address-line label, are written HOME_jusho1..3 and WORK_jusho1..3.  *)
(***************************************************************************)
EXTENDS Integers, Naturals, Sequences, FiniteSets, TLC

VARIABLES
    s,           \* esc: the argument
    escaped,     \* esc: the result
    file_bytes,  \* read_csv_rows: the uploaded bytes
    rows,        \* read_csv_rows: the result (list of row dicts, or an error)
    row,         \* row_to_vcard: the argument
    vcard,       \* row_to_vcard: the returned string
    pc           \* "start" before the function has run, "done" after

vars == <<s, escaped, file_bytes, rows, row, vcard, pc>>

(***************************************************************************)
(* Bounds of the model.                                                    *)
(***************************************************************************)
MaxLen == 4        \* longest argument of esc
MaxAddrLen == 3    \* longest primary address line
MaxEntries == 2    \* most entries in one multi-value phone cell
MaxBody == 4       \* most bytes after the optional byte-order mark

(***************************************************************************)
(* Python str helpers.                                                     *)
(***************************************************************************)
Strings(alphabet, n) == UNION {[1..k -> alphabet] : k \in 0..n}

RECURSIVE Flatten(_)
Flatten(ss) == IF ss = <<>> THEN <<>> ELSE Head(ss) \o Flatten(Tail(ss))

\* sep.join(parts)
RECURSIVE join(_, _)
join(sep, parts) ==
    IF parts = <<>> THEN <<>>
    ELSE IF Len(parts) = 1 THEN parts[1]
    ELSE parts[1] \o sep \o join(sep, Tail(parts))

\* str.split(sep) for a one-character separator
RECURSIVE split(_, _)
split(str, sep) ==
    IF \A i \in 1..Len(str) : str[i] # sep THEN <<str>>
    ELSE LET p == CHOOSE i \in 1..Len(str) :
                      str[i] = sep /\ \A j \in 1..(i - 1) : str[j] # sep
         IN <<SubSeq(str, 1, p - 1)>> \o split(SubSeq(str, p + 1, Len(str)), sep)

IsSpace(c) == c \in {" ", "\n", "\t", "\r"}

\* str.strip()
RECURSIVE lstrip(_)
lstrip(str) == IF str # <<>> /\ IsSpace(Head(str)) THEN lstrip(Tail(str)) ELSE str

RECURSIVE rstrip(_)
rstrip(str) ==
    IF str # <<>> /\ IsSpace(str[Len(str)])
    THEN rstrip(SubSeq(str, 1, Len(str) - 1)) ELSE str

strip(str) == rstrip(lstrip(str))

\* str.replace(old, new) for a one-character old
RECURSIVE replace(_, _, _)
replace(str, old, new) ==
    IF str = <<>> THEN <<>>
    ELSE (IF Head(str) = old THEN new ELSE <<Head(str)>>)
             \o replace(Tail(str), old, new)

startswith(str, prefix) ==
    Len(str) >= Len(prefix) /\ SubSeq(str, 1, Len(prefix)) = prefix

\* a or b on strings: the first operand unless it is empty
Or(a, b) == IF a # <<>> THEN a ELSE b

\* str(n) of a natural number, as an f-string formats it
DigitChar(d) == <<"0", "1", "2", "3", "4", "5", "6", "7", "8", "9">>[d + 1]

RECURSIVE str_of(_)
str_of(n) ==
    IF n < 10 THEN <<DigitChar(n)>> ELSE str_of(n \div 10) \o <<DigitChar(n % 10)>>

SelectSeqNonEmpty(parts) == SelectSeq(parts, LAMBDA x : x # <<>>)

(***************************************************************************)
(* esc                                                                     *)
(***************************************************************************)
\* A variant that escapes newlines before backslashes.
esc_newline_first(t) ==
    replace(replace(replace(replace(t, "\n", <<"\\", "n">>),
                            "\\", <<"\\", "\\">>),
                    ";", <<"\\", ";">>),
            ",", <<"\\", ",">>)

esc(t) ==
    replace(replace(replace(replace(t, "\\", <<"\\", "\\">>),
                            "\n", <<"\\", "n">>),
                    ";", <<"\\", ";">>),
            ",", <<"\\", ",">>)

(***************************************************************************)
(* split_multi, normalize_phone, detect_phone_type                         *)
(***************************************************************************)
split_multi(value) ==
    LET pieces == split(value, ";")
    IN SelectSeqNonEmpty([i \in 1..Len(pieces) |-> strip(pieces[i])])

\* \d of the re module: ASCII digits and the other Unicode decimal digits
IsDigit(c) == c \in {"0", "1", "2", "3", "4", "5", "6", "7", "8", "9",
                     "FW0", "FW7", "FW8"}

normalize_phone(num) ==
    IF strip(num) = <<>> THEN <<>>
    ELSE LET lead_plus == startswith(strip(num), <<"+">>)
             digits == SelectSeq(num, IsDigit)
         IN IF lead_plus /\ digits # <<>> THEN <<"+">> \o digits ELSE digits

\* A variant whose pattern has lost the optional country code.
detect_phone_type_no_country_code(num) ==
    IF \E z \in {<<>>, <<"0">>} :
          \E m \in {<<"9", "0">>, <<"8", "0">>, <<"7", "0">>} :
              startswith(num, z \o m)
    THEN "CELL" ELSE "WORK"

\* re.match(r"^(\+81)?0?(90|80|70)", num)
detect_phone_type(num) ==
    IF \E p \in {<<>>, <<"+", "8", "1">>} :
          \E z \in {<<>>, <<"0">>} :
              \E m \in {<<"9", "0">>, <<"8", "0">>, <<"7", "0">>} :
                  startswith(num, p \o z \o m)
    THEN "CELL" ELSE "WORK"

(***************************************************************************)
(* Rows.  row.get(key, "") and (row.get(key) or "")                        *)
(***************************************************************************)
get(r, key) == IF key \in DOMAIN r THEN r[key] ELSE <<>>

Jitaku == <<"Ji", "Taku">>
Kaisha == <<"Kai", "Sha">>

(***************************************************************************)
(* adr_from_row                                                            *)
(***************************************************************************)
addr_type_of(r) == IF strip(get(r, "atesaki")) = Jitaku THEN "HOME" ELSE "WORK"

\* f"{'jitaku' if addr_type=='HOME' else 'kaisha'}<postal mark>"
postal_key(addr_type) == IF addr_type = "HOME" THEN "jitaku_yubin" ELSE "kaisha_yubin"

\* f"{addr_type}<address-line label>{n}": the key starts with HOME or WORK
addr_key(addr_type, n) ==
    IF addr_type = "HOME"
    THEN <<"HOME_jusho1", "HOME_jusho2", "HOME_jusho3">>[n]
    ELSE <<"WORK_jusho1", "WORK_jusho2", "WORK_jusho3">>[n]

kaisha_jusho(n) == <<"kaisha_jusho1", "kaisha_jusho2", "kaisha_jusho3">>[n]

postal_of(r) ==
    strip(Or(Or(get(r, postal_key(addr_type_of(r))), get(r, "kaisha_yubin")),
             get(r, "jitaku_yubin")))

a_of(r, n) == strip(Or(get(r, addr_key(addr_type_of(r), n)), get(r, kaisha_jusho(n))))

PrefSuffix == {"To", "Do", "Fu", "Ken"}

NoNewline(str) == \A i \in 1..Len(str) : str[i] # "\n"

\* (.*)$ on the text after the suffix: the captured group, or "none".  The
\* dot matches no newline and $ matches at the end or before a final newline.
match_rest(rest) ==
    IF NoNewline(rest) THEN [ok |-> TRUE, g |-> rest]
    ELSE IF rest[Len(rest)] = "\n" /\ NoNewline(SubSeq(rest, 1, Len(rest) - 1))
         THEN [ok |-> TRUE, g |-> SubSeq(rest, 1, Len(rest) - 1)]
         ELSE [ok |-> FALSE, g |-> <<>>]

\* re.match(r"^(.*?)(to|do|fu|ken)(.*)$", a1): the positions of the suffix
\* character at which the whole pattern matches; the lazy group takes the least.
match_positions(a1) ==
    {i \in 1..Len(a1) :
        /\ a1[i] \in PrefSuffix
        /\ NoNewline(SubSeq(a1, 1, i - 1))
        /\ match_rest(SubSeq(a1, i + 1, Len(a1))).ok}

\* the three components extracted from the primary address line
address_parts(a1) ==
    IF \E i \in 1..Len(a1) : a1[i] \in PrefSuffix
    THEN IF match_positions(a1) # {}
         THEN LET i == CHOOSE k \in match_positions(a1) :
                           \A j \in match_positions(a1) : k <= j
                  rest == match_rest(SubSeq(a1, i + 1, Len(a1))).g
              IN IF \E q \in 1..Len(rest) : rest[q] = "Ku"
                 THEN LET p == CHOOSE q \in 1..Len(rest) :
                                   rest[q] = "Ku" /\ \A j \in 1..(q - 1) : rest[j] # "Ku"
                      IN [pref |-> SubSeq(a1, 1, i), city |-> SubSeq(rest, 1, p),
                          street |-> SubSeq(rest, p + 1, Len(rest))]
                 ELSE [pref |-> SubSeq(a1, 1, i), city |-> <<>>, street |-> rest]
         ELSE [pref |-> <<>>, city |-> <<>>, street |-> <<>>]
    ELSE [pref |-> <<>>, city |-> <<>>, street |-> a1]

adr_from_row(r) ==
    LET addr_type == addr_type_of(r)
        postal == postal_of(r)
        a1 == a_of(r, 1)
        a2 == a_of(r, 2)
        parts == address_parts(a1)
        street_full == join(<<" ">>, SelectSeqNonEmpty(<<parts.street, a2>>))
    IN IF street_full = <<>> /\ parts.city = <<>> /\ parts.pref = <<>> /\ postal = <<>>
       THEN <<>>
       ELSE <<"ADR;TYPE=", addr_type, ":;;">> \o esc(street_full) \o <<";">>
                \o esc(parts.city) \o <<";">> \o esc(parts.pref) \o <<";">>
                \o esc(postal) \o <<";", "Ni", "Hon">>

(***************************************************************************)
(* row_to_vcard, one operator per section of the function.  Each yields    *)
(* the lines that the section appends to L, in order.                      *)
(***************************************************************************)
field(r, key) == strip(get(r, key))

name_lines(r) ==
    LET family == field(r, "sei")
        given == field(r, "mei")
        nick == field(r, "nickname")
        fk == field(r, "sei_kana")
        gk == field(r, "mei_kana")
    IN (IF family # <<>> \/ given # <<>>
        THEN << <<"N:">> \o esc(family) \o <<";">> \o esc(given) \o <<";;;">>,
                <<"FN:">> \o esc(given) \o <<" ">> \o esc(family) >>
        ELSE <<>>)
       \o (IF nick # <<>> THEN << <<"NICKNAME:">> \o esc(nick) >> ELSE <<>>)
       \o (IF fk # <<>> THEN << <<"X-PHONETIC-LAST-NAME:">> \o esc(fk) >> ELSE <<>>)
       \o (IF gk # <<>> THEN << <<"X-PHONETIC-FIRST-NAME:">> \o esc(gk) >> ELSE <<>>)

org_lines(r) ==
    LET company == field(r, "kaisha_mei")
        dept1 == field(r, "busho_mei1")
        dept2 == field(r, "busho_mei2")
        dept == join(<<" ">>, SelectSeqNonEmpty(<<dept1, dept2>>))
        org_kana == field(r, "kaisha_mei_kana")
        title == field(r, "yakushoku_mei")
    IN (IF company # <<>> \/ dept # <<>>
        THEN << <<"ORG:">> \o esc(company) \o <<";">> \o esc(dept) >>
        ELSE <<>>)
       \o (IF org_kana # <<>> THEN << <<"X-PHONETIC-ORG:">> \o esc(org_kana) >> ELSE <<>>)
       \o (IF title # <<>> THEN << <<"TITLE:">> \o esc(title) >> ELSE <<>>)

\* t = "CELL" if (label == "CELL" or detect_phone_type(num) == "CELL") else label
tel_type(label, num) ==
    IF label = "CELL" \/ detect_phone_type(num) = "CELL" THEN "CELL" ELSE label

\* the inner loop over one phone column
RECURSIVE tel_entries(_, _)
tel_entries(label, raws) ==
    IF raws = <<>> THEN <<>>
    ELSE LET num == normalize_phone(Head(raws))
         IN (IF num = <<>> THEN <<>>
             ELSE << <<"TEL;TYPE=", tel_type(label, num), ",VOICE:">> \o num >>)
            \o tel_entries(label, Tail(raws))

tel_column(r, label, key) == tel_entries(label, split_multi(get(r, key)))

tel_lines(r) ==
    tel_column(r, "WORK", "kaisha_denwa")
        \o tel_column(r, "HOME", "jitaku_denwa")
        \o tel_column(r, "CELL", "keitai_bangou")

email_column(r, label, key) ==
    LET mails == split_multi(get(r, key))
    IN [i \in 1..Len(mails) |->
            <<"EMAIL;TYPE=INTERNET,", label, ":">> \o esc(mails[i])]

email_lines(r) ==
    email_column(r, "WORK", "kaisha_email")
        \o email_column(r, "HOME", "jitaku_email")
        \o email_column(r, "OTHER", "sonota_email")

adr_lines(r) == IF adr_from_row(r) # <<>> THEN <<adr_from_row(r)>> ELSE <<>>

bikou_key(i) == <<"bikou1", "bikou2", "bikou3">>[i]

\* the separator the notes are joined with: the source writes the literal
\* '\\n' inside the f-string, which is a backslash followed by the letter n
note_separator == <<"\\", "n">>

note_lines(r) ==
    LET notes == SelectSeqNonEmpty([i \in 1..3 |-> field(r, bikou_key(i))])
    IN IF notes # <<>>
       THEN << <<"NOTE:">> \o esc(join(note_separator, notes)) >>
       ELSE <<>>

memo_key(i) == <<"memo1", "memo2", "memo3", "memo4", "memo5">>[i]

\* A variant with the offset off by one.
memo_index_off_by_one(i) == i + 3

\* idx = i + 4
memo_index(i) == i + 4

\* A variant that emits the label line before the related-name line.
memo_pair_label_first(r, i) ==
    LET val == field(r, memo_key(i))
        idx == memo_index(i)
    IN IF val # <<>>
       THEN << <<"item">> \o str_of(idx) \o <<".X-ABLabel:", "Me", "Mo">> \o str_of(i),
               <<"item">> \o str_of(idx) \o <<".X-ABRELATEDNAMES:">> \o esc(val) >>
       ELSE <<>>

\* one iteration of the memo loop
memo_pair(r, i) ==
    LET val == field(r, memo_key(i))
        idx == memo_index(i)
    IN IF val # <<>>
       THEN << <<"item">> \o str_of(idx) \o <<".X-ABRELATEDNAMES:">> \o esc(val),
               <<"item">> \o str_of(idx) \o <<".X-ABLabel:", "Me", "Mo">> \o str_of(i) >>
       ELSE <<>>

memo_lines(r) == Flatten([i \in 1..5 |-> memo_pair(r, i)])

\* A variant that appends the address before the phones.
vcard_lines_adr_early(r) ==
    << <<"BEGIN:VCARD">>, <<"VERSION:3.0">> >>
        \o name_lines(r) \o org_lines(r) \o adr_lines(r) \o tel_lines(r)
        \o email_lines(r) \o note_lines(r) \o memo_lines(r)
        \o << <<"END:VCARD">> >>

\* the list L just before it is joined
vcard_lines(r) ==
    << <<"BEGIN:VCARD">>, <<"VERSION:3.0">> >>
        \o name_lines(r) \o org_lines(r) \o tel_lines(r) \o email_lines(r)
        \o adr_lines(r) \o note_lines(r) \o memo_lines(r)
        \o << <<"END:VCARD">> >>

row_to_vcard(r) == join(<<"\n">>, vcard_lines(r))

(***************************************************************************)
(* read_csv_rows.  A byte is written as a token: the ASCII bytes "s", ",",  *)
(* "\n", " " and the bytes 0x90, 0xA9, 0xEF, 0xBB, 0xBF as "90", "A9",     *)
(* "EF", "BB", "BF".  Decoded characters outside ASCII are named by their   *)
(* code point ("U59D3" is U+59D3, the family-name column title).           *)
(***************************************************************************)
BOM == <<"EF", "BB", "BF">>

IsAsciiByte(b) == b \in {"s", ",", "\n", " "}

\* the continuation bytes 0x80..0xBF
IsContinuation(b) == b \in {"90", "A9", "BB", "BF"}

\* the character encoded by 0xEF b2 b3 in UTF-8
utf8_char(b2, b3) ==
    CASE b2 = "90" /\ b3 = "90" -> "UF410" [] b2 = "90" /\ b3 = "A9" -> "UF429"
      [] b2 = "90" /\ b3 = "BB" -> "UF43B" [] b2 = "90" /\ b3 = "BF" -> "UF43F"
      [] b2 = "A9" /\ b3 = "90" -> "UFA50" [] b2 = "A9" /\ b3 = "A9" -> "UFA69"
      [] b2 = "A9" /\ b3 = "BB" -> "UFA7B" [] b2 = "A9" /\ b3 = "BF" -> "UFA7F"
      [] b2 = "BB" /\ b3 = "90" -> "UFED0" [] b2 = "BB" /\ b3 = "A9" -> "UFEE9"
      [] b2 = "BB" /\ b3 = "BB" -> "UFEFB" [] b2 = "BB" /\ b3 = "BF" -> "FEFF"
      [] b2 = "BF" /\ b3 = "90" -> "UFFD0" [] b2 = "BF" /\ b3 = "A9" -> "UFFE9"
      [] b2 = "BF" /\ b3 = "BB" -> "UFFFB" [] b2 = "BF" /\ b3 = "BF" -> "UFFFF"

\* bytes.decode("utf-8"): [ok, text]
RECURSIVE decode_utf8(_)
decode_utf8(bytes) ==
    IF bytes = <<>> THEN [ok |-> TRUE, text |-> <<>>]
    ELSE IF IsAsciiByte(bytes[1])
    THEN LET r == decode_utf8(Tail(bytes))
         IN [ok |-> r.ok, text |-> <<bytes[1]>> \o r.text]
    ELSE IF bytes[1] = "EF" /\ Len(bytes) >= 3
            /\ IsContinuation(bytes[2]) /\ IsContinuation(bytes[3])
    THEN LET r == decode_utf8(SubSeq(bytes, 4, Len(bytes)))
         IN [ok |-> r.ok, text |-> <<utf8_char(bytes[2], bytes[3])>> \o r.text]
    ELSE [ok |-> FALSE, text |-> <<>>]

\* bytes.decode("utf-8-sig"): a leading byte-order mark is skipped
decode_utf8_sig(bytes) ==
    IF startswith(bytes, BOM) THEN decode_utf8(SubSeq(bytes, 4, Len(bytes)))
    ELSE decode_utf8(bytes)

\* the half-width katakana encoded by one byte 0xA1..0xDF
halfwidth_char(b) == CASE b = "A9" -> "UFF69" [] b = "BB" -> "UFF7B" [] b = "BF" -> "UFF7F"

\* the trail bytes that complete the lead byte 0x90
IsTrailByte(b) == b \in {"s", "90", "A9", "EF", "BB", "BF"}

\* the kanji encoded by 0x90 b2
kanji_char(b2) ==
    CASE b2 = "s" -> "U5C3D" [] b2 = "90" -> "U745E" [] b2 = "A9" -> "U59D3"
      [] b2 = "EF" -> "U64B0" [] b2 = "BB" -> "U88FD" [] b2 = "BF" -> "U8ACB"

\* bytes.decode("cp932"): 0xEF starts no character of the code page
RECURSIVE decode_cp932(_)
decode_cp932(bytes) ==
    IF bytes = <<>> THEN [ok |-> TRUE, text |-> <<>>]
    ELSE IF IsAsciiByte(bytes[1])
    THEN LET r == decode_cp932(Tail(bytes))
         IN [ok |-> r.ok, text |-> <<bytes[1]>> \o r.text]
    ELSE IF bytes[1] \in {"A9", "BB", "BF"}
    THEN LET r == decode_cp932(Tail(bytes))
         IN [ok |-> r.ok, text |-> <<halfwidth_char(bytes[1])>> \o r.text]
    ELSE IF bytes[1] = "90" /\ Len(bytes) >= 2 /\ IsTrailByte(bytes[2])
    THEN LET r == decode_cp932(SubSeq(bytes, 3, Len(bytes)))
         IN [ok |-> r.ok, text |-> <<kanji_char(bytes[2])>> \o r.text]
    ELSE [ok |-> FALSE, text |-> <<>>]

\* bytes.decode("shift_jis"): on these bytes it agrees with cp932
decode_shift_jis(bytes) == decode_cp932(bytes)

encodings == <<"utf-8", "utf-8-sig", "cp932", "shift_jis">>

decode(bytes, enc) ==
    CASE enc = "utf-8" -> decode_utf8(bytes)
      [] enc = "utf-8-sig" -> decode_utf8_sig(bytes)
      [] enc = "cp932" -> decode_cp932(bytes)
      [] enc = "shift_jis" -> decode_shift_jis(bytes)

\* csv.reader over io.StringIO(text): one list of cells per line, [] for a
\* blank line; the text holds no quote character
csv_reader(text) ==
    LET pieces == split(text, "\n")
        lines == IF pieces[Len(pieces)] = <<>>
                 THEN SubSeq(pieces, 1, Len(pieces) - 1) ELSE pieces
    IN [i \in 1..Len(lines) |->
            IF lines[i] = <<>> THEN <<>> ELSE split(lines[i], ",")]

\* d[key] = value
dict_set(d, key, value) ==
    [k \in DOMAIN d \cup {key} |-> IF k = key THEN value ELSE d[k]]

EmptyDict == [k \in {} |-> <<>>]

\* A cell value is a str; the cells beyond the header are kept as one list.
StrValue(v) == [kind |-> "str", v |-> v]
ListValue(v) == [kind |-> "list", v |-> v]

\* dict(zip(fieldnames, row)) and the restval loop: the raw keys 1..i set in
\* order, a missing cell being None
RECURSIVE raw_row(_, _, _)
raw_row(fieldnames, cells, i) ==
    IF i = 0 THEN EmptyDict
    ELSE dict_set(raw_row(fieldnames, cells, i - 1), fieldnames[i],
                  IF i <= Len(cells) THEN StrValue(cells[i]) ELSE [kind |-> "None"])

\* the keys of that dict in insertion order: each name at its first occurrence
key_order(fieldnames) ==
    LET first == {i \in 1..Len(fieldnames) :
                      \A j \in 1..(i - 1) : fieldnames[j] # fieldnames[i]}
        RECURSIVE upto(_)
        upto(n) == IF n = 0 THEN <<>>
                   ELSE upto(n - 1) \o (IF n \in first THEN <<fieldnames[n]>> ELSE <<>>)
    IN upto(Len(fieldnames))

\* clean = { (k or "").strip(): (v if v is not None else "") for k, v in row.items() }
RECURSIVE clean_row(_, _, _)
clean_row(d, order, j) ==
    IF j = 0 THEN EmptyDict
    ELSE dict_set(clean_row(d, order, j - 1), strip(order[j]),
                  IF d[order[j]].kind = "None" THEN StrValue(<<>>) ELSE d[order[j]])

\* one row of csv.DictReader, cleaned; the cells beyond the header are stored
\* last, under the key None, which the comprehension turns into ""
dict_row(fieldnames, cells) ==
    LET d == raw_row(fieldnames, cells, Len(fieldnames))
        order == key_order(fieldnames)
        c == clean_row(d, order, Len(order))
    IN IF Len(fieldnames) < Len(cells)
       THEN dict_set(c, <<>>, ListValue(SubSeq(cells, Len(fieldnames) + 1, Len(cells))))
       ELSE c

\* the rows csv.DictReader yields: the first line is the header, blank lines
\* after it are skipped
dict_reader(text) ==
    LET lines == csv_reader(text)
    IN IF lines = <<>> THEN <<>>
       ELSE LET data == SelectSeq(Tail(lines), LAMBDA cells : cells # <<>>)
            IN [i \in 1..Len(data) |-> dict_row(lines[1], data[i])]

\* the loop over encodings, from position i: the first that decodes is used
RECURSIVE read_csv_rows_from(_, _)
read_csv_rows_from(bytes, i) ==
    IF i > Len(encodings) THEN [ok |-> FALSE, enc |-> "none", rows |-> <<>>]
    ELSE IF decode(bytes, encodings[i]).ok
    THEN [ok |-> TRUE, enc |-> encodings[i],
          rows |-> dict_reader(decode(bytes, encodings[i]).text)]
    ELSE read_csv_rows_from(bytes, i + 1)

read_csv_rows(bytes) == read_csv_rows_from(bytes, 1)

(***************************************************************************)
(* Inputs.                                                                 *)
(***************************************************************************)
Columns ==
    {"sei", "mei", "nickname", "sei_kana", "mei_kana", "kaisha_mei",
     "kaisha_mei_kana", "busho_mei1", "busho_mei2", "yakushoku_mei",
     "kaisha_denwa", "jitaku_denwa", "keitai_bangou",
     "kaisha_email", "jitaku_email", "sonota_email",
     "atesaki", "kaisha_yubin", "jitaku_yubin",
     "kaisha_jusho1", "kaisha_jusho2", "kaisha_jusho3",
     "jitaku_jusho1", "jitaku_jusho2", "jitaku_jusho3",
     "bikou1", "bikou2", "bikou3",
     "memo1", "memo2", "memo3", "memo4", "memo5"}

\* a row of a CSV file with the expected header: the cells not given are ""
MakeRow(cells) == [k \in Columns |-> IF k \in DOMAIN cells THEN cells[k] ELSE <<>>]

\* the row of the worked address example: home, 100-0001,
\* Tokyo-to Chiyoda-ku Marunouchi 1-1
ExamplePostal == <<"1", "0", "0", "-", "0", "0", "0", "1">>
ExampleStreet == <<"Maru", "No", "Uchi", "1", "-", "1">>
ExampleCity == <<"Chi", "Yo", "Da", "Ku">>
ExamplePref == <<"Tou", "Kyou", "To">>
ExampleRow ==
    MakeRow([atesaki |-> Jitaku, jitaku_yubin |-> ExamplePostal,
             jitaku_jusho1 |-> ExamplePref \o ExampleCity \o ExampleStreet])

\* primary address lines (the company column, which the code reads)
AddrAlphabet == {"To", "Do", "Fu", "Ken", "Ku", "a", "\n", " "}
AddressRows ==
    {MakeRow([kaisha_jusho1 |-> a1]) : a1 \in Strings(AddrAlphabet, MaxAddrLen)}

\* designator, postal codes and which address columns are filled
PostalRows ==
    {MakeRow([atesaki |-> at, kaisha_yubin |-> kp, jitaku_yubin |-> jp,
              kaisha_jusho1 |-> k1, jitaku_jusho1 |-> j1, kaisha_jusho2 |-> k2]) :
        at \in {<<>>, Jitaku, Kaisha, <<" ">> \o Jitaku \o <<" ">>},
        kp \in {<<>>, <<" ">>, <<"1">>},
        jp \in {<<>>, <<" ">>, <<"2">>},
        k1 \in {<<>>, <<"a">>, <<"To", "Ku", "a">>},
        j1 \in {<<>>, <<"b">>},
        k2 \in {<<>>, <<"c">>}}

NoteValues ==
    {<<>>, <<" ">>, <<"a">>, <<"b", ";">>, <<"\\", "n">>, <<" ", "c", "\n", "d">>}
NoteRows ==
    {MakeRow([bikou1 |-> n1, bikou2 |-> n2, bikou3 |-> n3]) :
        n1 \in NoteValues, n2 \in NoteValues, n3 \in NoteValues}

MemoValues == {<<>>, <<" ">>, <<"a", " ">>, <<",", "b">>}
MemoRows ==
    {MakeRow([memo1 |-> m1, memo2 |-> m2, memo3 |-> m3, memo4 |-> m4, memo5 |-> m5]) :
        m1 \in MemoValues, m2 \in MemoValues, m3 \in MemoValues,
        m4 \in MemoValues, m5 \in MemoValues}

\* the raw entries of a phone cell, between its semicolons
PhoneEntries ==
    {<<>>, <<"-">>, <<"0", "9", "0", "-", "1">>, <<"+", "8", "1", " ", "9", "0">>,
     <<"+", "8", "1", "0", "8", "0">>, <<"0", "3">>, <<" ", "7", "0", " ">>,
     <<"+", "9", "0">>, <<"FW8", "FW0">>}
PhoneCells == {join(<<";">>, es) : es \in Strings(PhoneEntries, MaxEntries)}
FewPhoneCells == {<<"0", "3">>, <<"8", "0">>}
PhoneRows ==
    {MakeRow([kaisha_denwa |-> k, jitaku_denwa |-> j, keitai_bangou |-> m]) :
        k \in PhoneCells, j \in FewPhoneCells, m \in FewPhoneCells}
    \cup {MakeRow([kaisha_denwa |-> k, jitaku_denwa |-> j, keitai_bangou |-> m]) :
        k \in FewPhoneCells, j \in PhoneCells, m \in FewPhoneCells}
    \cup {MakeRow([kaisha_denwa |-> k, jitaku_denwa |-> j, keitai_bangou |-> m]) :
        k \in FewPhoneCells, j \in FewPhoneCells, m \in PhoneCells}

\* every section of the record present or absent
Pick(b, v) == IF b THEN v ELSE <<>>
SectionRows ==
    {MakeRow([sei |-> Pick(f[1], <<"x">>), mei |-> Pick(f[2], <<"y">>),
              nickname |-> Pick(f[2], <<"k">>),
              sei_kana |-> Pick(f[3], <<"x">>), mei_kana |-> Pick(f[3], <<"y">>),
              kaisha_mei |-> Pick(f[4], <<"c">>),
              busho_mei1 |-> Pick(f[5], <<"d">>), busho_mei2 |-> Pick(f[5], <<"e">>),
              kaisha_mei_kana |-> Pick(f[6], <<"c">>),
              yakushoku_mei |-> Pick(f[6], <<"t">>),
              kaisha_denwa |-> Pick(f[7], <<"0", "3", ";", "9", "0">>),
              jitaku_denwa |-> Pick(f[8], <<"0", "4">>),
              keitai_bangou |-> Pick(f[8], <<"0", "5", ";", "0", "6">>),
              kaisha_email |-> Pick(f[9], <<"p", ";", "q">>),
              jitaku_email |-> Pick(f[10], <<"r">>),
              sonota_email |-> Pick(f[10], <<"u">>),
              kaisha_jusho1 |-> Pick(f[11], <<"To", "a">>),
              bikou1 |-> Pick(f[12], <<"n">>),
              memo1 |-> Pick(f[13], <<"m">>), memo4 |-> Pick(f[13], <<"w">>)]) :
        f \in [1..13 -> BOOLEAN]}

Rows ==
    {ExampleRow} \cup AddressRows \cup PostalRows \cup NoteRows \cup MemoRows
        \cup PhoneRows \cup SectionRows

\* the arguments of esc
EscAlphabet == {"\\", "\n", ";", ",", "n", "a"}
EscArguments == Strings(EscAlphabet, MaxLen)

\* the uploaded files: an optional byte-order mark, then a few bytes
BodyBytes == {"s", ",", "\n", " ", "90", "A9"}
Files == {p \o b : p \in {<<>>, BOM}, b \in Strings(BodyBytes, MaxBody)}

NotRead == [ok |-> FALSE, enc |-> "none", rows |-> <<>>]

(***************************************************************************)
(* row_to_vcard applied to one row                                         *)
(***************************************************************************)
Init ==
    /\ pc = "start"
    /\ row \in Rows
    /\ vcard = <<>>
    /\ s = <<>> /\ escaped = <<>>
    /\ file_bytes = <<>> /\ rows = NotRead

RowToVcard ==
    /\ pc = "start"
    /\ vcard' = row_to_vcard(row)
    /\ pc' = "done"
    /\ UNCHANGED <<s, escaped, file_bytes, rows, row>>

Next == RowToVcard

Spec == Init /\ [][Next]_vars

(***************************************************************************)
(* esc applied to one string                                               *)
(***************************************************************************)
InitEsc ==
    /\ pc = "start"
    /\ s \in EscArguments
    /\ escaped = <<>>
    /\ row = MakeRow(<<>>) /\ vcard = <<>>
    /\ file_bytes = <<>> /\ rows = NotRead

Esc ==
    /\ pc = "start"
    /\ escaped' = esc(s)
    /\ pc' = "done"
    /\ UNCHANGED <<s, file_bytes, rows, row, vcard>>

NextEsc == Esc

SpecEsc == InitEsc /\ [][NextEsc]_vars

(***************************************************************************)
(* read_csv_rows applied to one uploaded file                              *)
(***************************************************************************)
InitCsv ==
    /\ pc = "start"
    /\ file_bytes \in Files
    /\ rows = NotRead
    /\ s = <<>> /\ escaped = <<>>
    /\ row = MakeRow(<<>>) /\ vcard = <<>>

ReadCsvRows ==
    /\ pc = "start"
    /\ rows' = read_csv_rows(file_bytes)
    /\ pc' = "done"
    /\ UNCHANGED <<s, escaped, file_bytes, row, vcard>>

NextCsv == ReadCsvRows

SpecCsv == InitCsv /\ [][NextCsv]_vars

(***************************************************************************)
(* Vocabulary of the properties: how a reader of the record sees it.       *)
(***************************************************************************)
\* the lines of a record
Lines(v) == split(v, "\n")

\* the lines of the record that start with one of the given tokens
LinesStarting(v, tokens) ==
    SelectSeq(Lines(v), LAMBDA l : l # <<>> /\ l[1] \in tokens)

\* the escaping of one character, as the vCard rules give it
EscapedChar(c) ==
    CASE c = "\\" -> <<"\\", "\\">>
      [] c = "\n" -> <<"\\", "n">>
      [] c = ";" -> <<"\\", ";">>
      [] c = "," -> <<"\\", ",">>
      [] OTHER -> <<c>>

Escaped(t) == Flatten([i \in 1..Len(t) |-> EscapedChar(t[i])])

\* the standard unescape: left to right, each backslash pair gives one character
RECURSIVE Unescape(_)
Unescape(t) ==
    IF t = <<>> THEN <<>>
    ELSE IF t[1] = "\\" /\ Len(t) >= 2
    THEN <<IF t[2] = "n" THEN "\n" ELSE t[2]>> \o Unescape(SubSeq(t, 3, Len(t)))
    ELSE <<t[1]>> \o Unescape(Tail(t))

\* the fields of a structured value: split at the semicolons that are not escaped
RECURSIVE Fields(_)
Fields(t) ==
    IF t = <<>> THEN << <<>> >>
    ELSE IF t[1] = ";" THEN << <<>> >> \o Fields(Tail(t))
    ELSE LET n == IF t[1] = "\\" /\ Len(t) >= 2 THEN 2 ELSE 1
             rest == Fields(SubSeq(t, n + 1, Len(t)))
         IN << SubSeq(t, 1, n) \o rest[1] >> \o Tail(rest)

AdrLinesOf(v) == LinesStarting(v, {"ADR;TYPE="})

\* the seven unescaped components of an ADR line; the first two are the
\* empty ones of the literal ":;;"
AdrFields(l) ==
    LET f == << <<>>, <<>> >> \o Fields(SubSeq(l, 4, Len(l)))
    IN [i \in 1..Len(f) |-> Unescape(f[i])]

Trimmed(r, key) == strip(r[key])

(***************************************************************************)
(* C1  The worked example: the row with designator "jitaku" (home), home   *)
(* postal code 100-0001 and home address line 1 "Tokyo-to Chiyoda-ku       *)
(* Marunouchi 1-1" yields exactly one ADR line, tagged HOME, with that     *)
(* street, city, prefecture and postal code and the country Japan.         *)
(***************************************************************************)
ExampleAdrLine ==
    <<"ADR;TYPE=", "HOME", ":;;">> \o ExampleStreet \o <<";">> \o ExampleCity
        \o <<";">> \o ExamplePref \o <<";">> \o ExamplePostal \o <<";", "Ni", "Hon">>

C1_HomeAddressExample ==
    (pc = "done" /\ row = ExampleRow) => AdrLinesOf(vcard) = <<ExampleAdrLine>>

(***************************************************************************)
(* C2  The NOTE line carries the trimmed non-empty notes bikou1..3 in      *)
(* column order, joined by a newline and escaped once, so that unescaping  *)
(* its value gives the notes joined by real newlines; with no note there   *)
(* is no NOTE line.                                                        *)
(***************************************************************************)
NotesOf(r) == SelectSeqNonEmpty(<<Trimmed(r, "bikou1"), Trimmed(r, "bikou2"),
                                  Trimmed(r, "bikou3")>>)

NoteLinesOf(v) == LinesStarting(v, {"NOTE:"})

C2_NoteEscapedOnce ==
    pc = "done" =>
        IF NotesOf(row) = <<>> THEN NoteLinesOf(vcard) = <<>>
        ELSE /\ Len(NoteLinesOf(vcard)) = 1
             /\ Tail(NoteLinesOf(vcard)[1]) = Escaped(join(<<"\n">>, NotesOf(row)))
             /\ Unescape(Tail(NoteLinesOf(vcard)[1])) = join(<<"\n">>, NotesOf(row))

(***************************************************************************)
(* C3  esc maps backslash, newline, semicolon and comma to their           *)
(* two-character escapes, backslash first, and the standard unescape       *)
(* inverts it: Unescape(esc(s)) = s.                                       *)
(***************************************************************************)
C3_EscRoundTrip ==
    pc = "done" => (escaped = Escaped(s) /\ Unescape(escaped) = s)

C3_Witness ==
    /\ pc = "done"
    /\ s = <<"\\", "n", "\n", ";">>
    /\ escaped = <<"\\", "\\", "n", "\\", "n", "\\", ";">>

(***************************************************************************)
(* C4  Each memo slot N in 1..5 with a non-empty trimmed value yields the  *)
(* adjacent pair item(N+4).X-ABRELATEDNAMES:<escaped text>,                *)
(* item(N+4).X-ABLabel:memoN; empty slots yield nothing; the pairs come in *)
(* increasing N and no two slots share an item index.                      *)
(***************************************************************************)
SlotKey(n) == <<"memo1", "memo2", "memo3", "memo4", "memo5">>[n]
SlotDigit(n) == <<"1", "2", "3", "4", "5">>[n]
ItemDigit(n) == <<"5", "6", "7", "8", "9">>[n]

ExpectedMemoPair(r, n) ==
    IF Trimmed(r, SlotKey(n)) = <<>> THEN <<>>
    ELSE << <<"item", ItemDigit(n), ".X-ABRELATEDNAMES:">>
                \o Escaped(Trimmed(r, SlotKey(n))),
            <<"item", ItemDigit(n), ".X-ABLabel:", "Me", "Mo", SlotDigit(n)>> >>

ItemLinesOf(v) == LinesStarting(v, {"item"})

C4_MemoPairs ==
    pc = "done" =>
        /\ ItemLinesOf(vcard) = Flatten([n \in 1..5 |-> ExpectedMemoPair(row, n)])
        /\ \A i, j \in 1..Len(ItemLinesOf(vcard)) :
               (ItemLinesOf(vcard)[i][2] = ItemLinesOf(vcard)[j][2] /\ i < j)
                   => (j = i + 1 /\ ItemLinesOf(vcard)[i][3] = ".X-ABRELATEDNAMES:"
                                 /\ ItemLinesOf(vcard)[j][3] = ".X-ABLabel:")

C4_Witness ==
    /\ pc = "done"
    /\ Trimmed(row, "memo1") # <<>> /\ Trimmed(row, "memo2") = <<>>
    /\ row["memo2"] # <<>>
    /\ Trimmed(row, "memo3") # <<>> /\ Trimmed(row, "memo5") # <<>>
    /\ row["memo4"] = <<>>
    /\ Len(ItemLinesOf(vcard)) = 6

(***************************************************************************)
(* C5  As stated: a row whose memo slot 3 holds text has a related-name    *)
(* line with item index 8, followed by the label line of item 8 reading    *)
(* "memo3".                                                                *)
(***************************************************************************)
MemoThreeAt(v, digit) ==
    \E i \in 1..(Len(Lines(v)) - 1) :
        /\ Len(Lines(v)[i]) >= 3
        /\ SubSeq(Lines(v)[i], 1, 3) = <<"item", digit, ".X-ABRELATEDNAMES:">>
        /\ Lines(v)[i + 1] = <<"item", digit, ".X-ABLabel:", "Me", "Mo", "3">>

C5_MemoThreeIndexEight ==
    (pc = "done" /\ Trimmed(row, "memo3") # <<>>) => MemoThreeAt(vcard, "8")

(***************************************************************************)
(* C5 amended: a row whose memo slot 3 holds text has a related-name line  *)
(* with item index 7 (3 + 4), followed by the label line of item 7 reading *)
(* "memo3"; no line of the record carries item index 8 for that slot.      *)
(***************************************************************************)
C5_MemoThreeIndexSeven ==
    (pc = "done" /\ Trimmed(row, "memo3") # <<>>) =>
        (MemoThreeAt(vcard, "7") /\ ~MemoThreeAt(vcard, "8"))

C5_Witness ==
    /\ pc = "done"
    /\ row["memo3"] = <<",", "b">>
    /\ row["memo4"] = <<"a", " ">>
    /\ <<"item", "7", ".X-ABRELATEDNAMES:", "\\", ",", "b">> \in
           {Lines(vcard)[i] : i \in 1..Len(Lines(vcard))}
    /\ <<"item", "8", ".X-ABLabel:", "Me", "Mo", "4">> \in
           {Lines(vcard)[i] : i \in 1..Len(Lines(vcard))}

(***************************************************************************)
(* C6  read_csv_rows tries utf-8, utf-8-sig, cp932, shift_jis in that      *)
(* order and uses the first that decodes; for a file that is a byte-order  *)
(* mark followed by a valid UTF-8 CSV the mark is stripped: no key of a    *)
(* returned row holds the mark and the first column is found under its     *)
(* plain trimmed name.                                                     *)
(***************************************************************************)
AfterBom(bytes) == SubSeq(bytes, 4, Len(bytes))

\* the trimmed name of the first header cell of a CSV text
FirstColumn(text) == strip(csv_reader(text)[1][1])

HasMark(key) == \E i \in 1..Len(key) : key[i] = "FEFF"

FirstThatDecodes(bytes, enc) ==
    \E i \in 1..Len(encodings) :
        /\ encodings[i] = enc
        /\ decode(bytes, enc).ok
        /\ \A j \in 1..(i - 1) : ~decode(bytes, encodings[j]).ok

C6_BomStripped ==
    pc = "done" =>
        /\ rows.ok => FirstThatDecodes(file_bytes, rows.enc)
        /\ (startswith(file_bytes, BOM) /\ decode_utf8(AfterBom(file_bytes)).ok) =>
               /\ rows.ok
               /\ \A i \in 1..Len(rows.rows) :
                      /\ \A k \in DOMAIN rows.rows[i] : ~HasMark(k)
                      /\ FirstColumn(decode_utf8(AfterBom(file_bytes)).text)
                             \in DOMAIN rows.rows[i]

(***************************************************************************)
(* C7  There is exactly one TEL line per semicolon-separated entry of the  *)
(* company, home and mobile phone columns that holds a digit.  An entry of *)
(* the mobile column is tagged CELL; an entry of the other two is tagged   *)
(* CELL when its normalized value starts with an optional +81, an optional *)
(* 0 and then 90, 80 or 70, and keeps its column's label otherwise.        *)
(***************************************************************************)
HasDigit(e) == \E i \in 1..Len(e) : IsDigit(e[i])

MobilePattern(num) ==
    \/ \E m \in {"9", "8", "7"} : startswith(num, <<m, "0">>)
    \/ \E m \in {"9", "8", "7"} : startswith(num, <<"0", m, "0">>)
    \/ \E m \in {"9", "8", "7"} : startswith(num, <<"+", "8", "1", m, "0">>)
    \/ \E m \in {"9", "8", "7"} : startswith(num, <<"+", "8", "1", "0", m, "0">>)

ExpectedTag(label, e) ==
    IF label = "CELL" \/ MobilePattern(normalize_phone(e)) THEN "CELL" ELSE label

\* the tags of one phone column, one per entry that holds a digit
ExpectedTags(r, label, key) ==
    LET es == SelectSeq(split(r[key], ";"), HasDigit)
    IN [i \in 1..Len(es) |-> ExpectedTag(label, es[i])]

TelLinesOf(v) == LinesStarting(v, {"TEL;TYPE="})

C7_TelLines ==
    pc = "done" =>
        [i \in 1..Len(TelLinesOf(vcard)) |-> TelLinesOf(vcard)[i][2]]
            = ExpectedTags(row, "WORK", "kaisha_denwa")
                  \o ExpectedTags(row, "HOME", "jitaku_denwa")
                  \o ExpectedTags(row, "CELL", "keitai_bangou")

C7_Witness ==
    /\ pc = "done"
    /\ row["kaisha_denwa"] = <<"+", "8", "1", " ", "9", "0", ";", "-">>
    /\ row["jitaku_denwa"] = <<"0", "3">>
    /\ row["keitai_bangou"] = <<"0", "3">>
    /\ TelLinesOf(vcard) = << <<"TEL;TYPE=", "CELL", ",VOICE:", "+", "8", "1", "9", "0">>,
                              <<"TEL;TYPE=", "HOME", ",VOICE:", "0", "3">>,
                              <<"TEL;TYPE=", "CELL", ",VOICE:", "0", "3">> >>

(***************************************************************************)
(* C8  The record starts with BEGIN:VCARD, VERSION:3.0 and ends with       *)
(* END:VCARD; between them the lines come in the fixed order N, FN,        *)
(* NICKNAME, X-PHONETIC-LAST-NAME, X-PHONETIC-FIRST-NAME, ORG,             *)
(* X-PHONETIC-ORG, TITLE, TEL (company, home, mobile), EMAIL (company,     *)
(* home, other), ADR, NOTE, memo items: no line of a later group precedes  *)
(* a line of an earlier group.                                             *)
(***************************************************************************)
GroupOf(l) ==
    CASE l[1] = "N:" -> 1
      [] l[1] = "FN:" -> 2
      [] l[1] = "NICKNAME:" -> 3
      [] l[1] = "X-PHONETIC-LAST-NAME:" -> 4
      [] l[1] = "X-PHONETIC-FIRST-NAME:" -> 5
      [] l[1] = "ORG:" -> 6
      [] l[1] = "X-PHONETIC-ORG:" -> 7
      [] l[1] = "TITLE:" -> 8
      [] l[1] = "TEL;TYPE=" -> 9
      [] l[1] = "EMAIL;TYPE=INTERNET," /\ l[2] = "WORK" -> 10
      [] l[1] = "EMAIL;TYPE=INTERNET," /\ l[2] = "HOME" -> 11
      [] l[1] = "EMAIL;TYPE=INTERNET," /\ l[2] = "OTHER" -> 12
      [] l[1] = "ADR;TYPE=" -> 13
      [] l[1] = "NOTE:" -> 14
      [] l[1] = "item" -> 15
      [] OTHER -> 0

\* the normalized numbers of one phone column, in entry order
NumbersOf(r, key) ==
    LET es == SelectSeq(split(r[key], ";"), HasDigit)
    IN [i \in 1..Len(es) |-> normalize_phone(es[i])]

C8_LineOrder ==
    pc = "done" =>
        LET L == Lines(vcard)
        IN /\ Len(L) >= 3
           /\ L[1] = <<"BEGIN:VCARD">>
           /\ L[2] = <<"VERSION:3.0">>
           /\ L[Len(L)] = <<"END:VCARD">>
           /\ \A i \in 3..(Len(L) - 1) : L[i] # <<>> /\ GroupOf(L[i]) > 0
           /\ \A i, j \in 3..(Len(L) - 1) : i < j => GroupOf(L[i]) <= GroupOf(L[j])
           /\ [i \in 1..Len(TelLinesOf(vcard)) |->
                   SubSeq(TelLinesOf(vcard)[i], 4, Len(TelLinesOf(vcard)[i]))]
                  = NumbersOf(row, "kaisha_denwa") \o NumbersOf(row, "jitaku_denwa")
                        \o NumbersOf(row, "keitai_bangou")

C8_Witness ==
    /\ pc = "done"
    /\ {GroupOf(Lines(vcard)[i]) : i \in 3..(Len(Lines(vcard)) - 1)} = 1..15
    /\ Len(TelLinesOf(vcard)) = 5

(***************************************************************************)
(* C9  The postal code of the ADR line is the first non-empty value among  *)
(* the type-specific column (jitaku_yubin when the designator is "jitaku", *)
(* kaisha_yubin otherwise), kaisha_yubin, jitaku_yubin; it is empty only   *)
(* when both postal columns are empty.  A value is taken as empty when     *)
(* nothing is left of it after trimming.                                   *)
(***************************************************************************)
PostalPriority(r) ==
    <<IF Trimmed(r, "atesaki") = Jitaku THEN r["jitaku_yubin"] ELSE r["kaisha_yubin"],
      r["kaisha_yubin"], r["jitaku_yubin"]>>

FirstNonEmpty(values) ==
    LET kept == SelectSeqNonEmpty([i \in 1..Len(values) |-> strip(values[i])])
    IN IF kept = <<>> THEN <<>> ELSE kept[1]

C9_PostalPriority ==
    (pc = "done" /\ AdrLinesOf(vcard) # <<>>) =>
        /\ AdrFields(AdrLinesOf(vcard)[1])[6] = FirstNonEmpty(PostalPriority(row))
        /\ AdrFields(AdrLinesOf(vcard)[1])[6] = <<>> =>
               (Trimmed(row, "kaisha_yubin") = <<>> /\ Trimmed(row, "jitaku_yubin") = <<>>)

(***************************************************************************)
(* C10  The primary address line a1 is split without losing text: with no  *)
(* prefecture suffix (to, do, fu, ken) it is all street; otherwise the     *)
(* prefecture runs up to and including the first suffix, and the rest is   *)
(* split at its first "ku" into city and street, or is all street.  The    *)
(* ADR line carries these parts, and prefecture + city + street = a1.      *)
(***************************************************************************)
FirstIndex(t, chars) ==
    CHOOSE i \in 1..Len(t) : t[i] \in chars /\ \A j \in 1..(i - 1) : t[j] \notin chars

Occurs(t, chars) == \E i \in 1..Len(t) : t[i] \in chars

ExpectedParts(a1) ==
    IF ~Occurs(a1, PrefSuffix) THEN [pref |-> <<>>, city |-> <<>>, street |-> a1]
    ELSE LET i == FirstIndex(a1, PrefSuffix)
             rest == SubSeq(a1, i + 1, Len(a1))
         IN IF Occurs(rest, {"Ku"})
            THEN [pref |-> SubSeq(a1, 1, i),
                  city |-> SubSeq(rest, 1, FirstIndex(rest, {"Ku"})),
                  street |-> SubSeq(rest, FirstIndex(rest, {"Ku"}) + 1, Len(rest))]
            ELSE [pref |-> SubSeq(a1, 1, i), city |-> <<>>, street |-> rest]

C10_AddressSplit ==
    pc = "done" =>
        LET a1 == a_of(row, 1)
            parts == address_parts(a1)
        IN /\ parts = ExpectedParts(a1)
           /\ parts.pref \o parts.city \o parts.street = a1
           /\ (a1 # <<>> /\ a_of(row, 2) = <<>>) =>
                  /\ Len(AdrLinesOf(vcard)) = 1
                  /\ AdrFields(AdrLinesOf(vcard)[1])[3] = ExpectedParts(a1).street
                  /\ AdrFields(AdrLinesOf(vcard)[1])[4] = ExpectedParts(a1).city
                  /\ AdrFields(AdrLinesOf(vcard)[1])[5] = ExpectedParts(a1).pref

=============================================================================
